---- MODULE Spec2Model ----
(***************************************************************************)
(* Momentry: week indexing, date mapping and the year grid.                *)
(*                                                                         *)
(* A JavaScript Date is modelled as an integer number of hours since       *)
(* 1970-01-01T00:00Z.  The browser's time zone is a fixed whole-hour       *)
(* offset tz (local time = UTC + tz, no daylight saving).  Times of day    *)
(* finer than one hour are truncated to the hour (23:59:59.999 is hour 23).*)
(***************************************************************************)
EXTENDS Integers, Sequences, FiniteSets, TLC

VARIABLES
  tz,                 \* time zone offset of the browser, in hours
  now,                \* what new Date() returns
  lsBirth,            \* localStorage 'userBirthDate' (day number of the YYYY-MM-DD string) or Null
  lsYears,            \* localStorage 'momentryData_<year>' : year -> stored array or Absent
  lsLegacy,           \* localStorage 'momentryData' (legacy global record) or Absent
  birthDate,          \* app.birthDate
  showStartingPage,   \* app.showStartingPage
  startingPage,       \* app.startingPage (state, currentQuestionIndex, form and skip flags)
  weeks,              \* app.weeks
  yearData,           \* app.yearData
  currentDisplayYear, \* app.currentDisplayYear
  currentWeekIndex,   \* app.currentWeekIndex
  yearTransition,     \* app.yearTransition (active, phase, targetYear)
  modalManager,       \* modalManager (selectedWeeksSinceBirth, editingMemoryId, birthDate) and
                      \* shown: whether #entry-modal has the class 'show'
  cachedModalOpen,    \* app.cachedModalOpen
  call                \* the last call of a function on its own: operation, arguments, result

vars == <<tz, now, lsBirth, lsYears, lsLegacy, birthDate, showStartingPage, startingPage,
          weeks, yearData, currentDisplayYear, currentWeekIndex, yearTransition,
          modalManager, cachedModalOpen, call>>

appVars == <<now, lsBirth, lsYears, lsLegacy, birthDate, showStartingPage, startingPage,
             weeks, yearData, currentDisplayYear, currentWeekIndex, yearTransition,
             modalManager, cachedModalOpen>>

------------------------------------------------------------------------------
(* Bounds of the model *)

\* number of calendar years in the explored window, starting with 2019
NumYears == 7
\* number of consecutive birth days explored, starting on Monday 2019-12-30
BirthSpan == 7
\* largest weeks-since-birth ordinal handed to the inverse mapping
MaxN == 520
\* number of consecutive days handed to getISOWeekNumber, starting on 2019-12-23
DateSpan == 390

------------------------------------------------------------------------------
(* JavaScript Date built-ins *)

\* null / unset Date
Null == 0 - 1

HoursPerDay == 24

IsLeap(y) == (y % 4 = 0 /\ y % 100 # 0) \/ y % 400 = 0

\* day number (days since 1970-01-01) of January 1st of year y
Jan1Day(y) ==
  365 * (y - 1970) + ((y - 1969) \div 4) - ((y - 1901) \div 100) + ((y - 1601) \div 400)

\* days of year y before its (0-based) month m
CumDays(y, m) ==
  <<0, 31, 59, 90, 120, 151, 181, 212, 243, 273, 304, 334>>[m + 1]
    + (IF m >= 2 /\ IsLeap(y) THEN 1 ELSE 0)

\* calendar year of a day number
YearOfDay(dn) ==
  LET g == 1970 + (dn \div 365)
  IN IF Jan1Day(g) <= dn THEN g ELSE g - 1

\* 0-based month of a day number
MonthOfDay(dn) ==
  LET y == YearOfDay(dn)
      doy == dn - Jan1Day(y)
  IN CHOOSE m \in 0..11 : CumDays(y, m) <= doy /\ (m = 11 \/ doy < CumDays(y, m + 1))

\* day of the month (1..31) of a day number
DateOfDay(dn) ==
  LET y == YearOfDay(dn)
  IN dn - Jan1Day(y) - CumDays(y, MonthOfDay(dn)) + 1

\* Date.UTC(year, month, date) : UTC midnight of that civil day (month is 0-based)
DateUTC(y, m, d) == (Jan1Day(y) + CumDays(y, m) + (d - 1)) * HoursPerDay

\* UTC and local day numbers of a Date
UTCDayNum(t) == t \div HoursPerDay
LocalDayNum(t, z) == (t + z) \div HoursPerDay

\* getUTCDay(): 0 = Sunday .. 6 = Saturday (1970-01-01 was a Thursday)
getUTCDay(t) == (UTCDayNum(t) + 4) % 7
getUTCFullYear(t) == YearOfDay(UTCDayNum(t))

\* getFullYear(), getMonth(), getDate(): fields of the local calendar day
getFullYear(t, z) == YearOfDay(LocalDayNum(t, z))
getMonth(t, z) == MonthOfDay(LocalDayNum(t, z))
getDate(t, z) == DateOfDay(LocalDayNum(t, z))

\* setUTCHours(0, 0, 0, 0) and setUTCHours(23, 59, 59, 999)
setUTCHoursStart(t) == UTCDayNum(t) * HoursPerDay
setUTCHoursEnd(t) == UTCDayNum(t) * HoursPerDay + 23

\* setHours(0, 0, 0, 0): local midnight of the local day
setHoursStart(t, z) == LocalDayNum(t, z) * HoursPerDay - z

\* setDate(getDate() + k): same local time of day, k days later
addLocalDays(t, k) == t + k * HoursPerDay

\* setUTCDate(getUTCDate() + k)
addUTCDays(t, k) == t + k * HoursPerDay

------------------------------------------------------------------------------
(* DateUtils *)

\* getISOWeekNumber without "|| 7": Sunday counted as day 0 of the following week
getISOWeekNumberSundayFirst(date, z) ==
  LET d0 == DateUTC(getFullYear(date, z), getMonth(date, z), getDate(date, z))
      day == getUTCDay(d0)
      d == addUTCDays(d0, 4 - day)
      isoYear == getUTCFullYear(d)
      yearStart == DateUTC(isoYear, 0, 1)
      weekNo == ((((d - yearStart) \div HoursPerDay) + 1) + 6) \div 7
  IN [weekNumber |-> weekNo, year |-> isoYear]

getISOWeekNumber(date, z) ==
  LET d0 == DateUTC(getFullYear(date, z), getMonth(date, z), getDate(date, z))
      day == IF getUTCDay(d0) = 0 THEN 7 ELSE getUTCDay(d0)
      d == addUTCDays(d0, 4 - day)
      isoYear == getUTCFullYear(d)
      yearStart == DateUTC(isoYear, 0, 1)
      weekNo == ((((d - yearStart) \div HoursPerDay) + 1) + 6) \div 7
  IN [weekNumber |-> weekNo, year |-> isoYear]

\* getDateFromWeekIndex counting weeks from January 1st instead of the first Thursday
getDateFromWeekIndexFromJan1(weekIndex, year) ==
  addUTCDays(DateUTC(year, 0, 1), weekIndex * 7)

getDateFromWeekIndex(weekIndex, year) ==
  LET jan1 == DateUTC(year, 0, 1)
      dayOfWeek == getUTCDay(jan1)
      daysToThursday == (4 - dayOfWeek + 7) % 7
      firstThursday == addUTCDays(jan1, daysToThursday)
  IN addUTCDays(firstThursday, weekIndex * 7)

\* getWeeksSinceBirth without the final Math.max(0, ...)
getWeeksSinceBirthNoMax(weekIndex, year, birth) ==
  IF birth = Null THEN weekIndex + 1
  ELSE ((getDateFromWeekIndex(weekIndex, year) - birth) \div HoursPerDay) \div 7

getWeeksSinceBirth(weekIndex, year, birth) ==
  IF birth = Null THEN weekIndex + 1
  ELSE LET weekStartDate == getDateFromWeekIndex(weekIndex, year)
           diffTime == weekStartDate - birth
           diffDays == diffTime \div HoursPerDay
           weeksSinceBirth == diffDays \div 7
       IN IF weeksSinceBirth < 0 THEN 0 ELSE weeksSinceBirth

\* getWeekDateRange with the Sunday taken 7 days after the Monday
getWeekDateRangeLongWeek(weekIndex, year) ==
  LET weekThursday == getDateFromWeekIndex(weekIndex, year)
      monday == setUTCHoursStart(addLocalDays(weekThursday, 0 - 3))
      sunday == setUTCHoursEnd(addLocalDays(monday, 7))
  IN [startDate |-> monday, endDate |-> sunday]

getWeekDateRange(weekIndex, year) ==
  LET weekThursday == getDateFromWeekIndex(weekIndex, year)
      monday == setUTCHoursStart(addLocalDays(weekThursday, 0 - 3))
      sunday == setUTCHoursEnd(addLocalDays(monday, 6))
  IN [startDate |-> monday, endDate |-> sunday]

\* null is the record with year = Null
NullYearWeek == [year |-> Null, weekIndex |-> Null]

\* birthWeekStart of getYearAndWeekIndexFromWeeksSinceBirth: the UTC midnight of the
\* Monday of the ISO week birthWeekInfo
BirthWeekStart(birthWeekInfo) ==
  setUTCHoursStart(
    getWeekDateRange(birthWeekInfo.weekNumber - 1, birthWeekInfo.year).startDate)

\* its return value for isoWeekInfo = getISOWeekNumber(targetDate)
YearAndWeekIndex(isoWeekInfo) ==
  [year |-> isoWeekInfo.year, weekIndex |-> isoWeekInfo.weekNumber - 1]

getYearAndWeekIndexFromWeeksSinceBirth(weeksSinceBirth, birth, z) ==
  IF birth = Null \/ weeksSinceBirth < 0 THEN NullYearWeek
  ELSE YearAndWeekIndex(
         getISOWeekNumber(
           BirthWeekStart(getISOWeekNumber(birth, z)) + weeksSinceBirth * 7 * HoursPerDay,
           z))

------------------------------------------------------------------------------
(* Inputs of the DateUtils calls *)

\* slots of a year grid: storage.js creates 52 records, the grid has 52 circles
NumSlots == 52
WeekSlots == 0..(NumSlots - 1)

Years == 2019..(2018 + NumYears)

\* time zones of the browser: New York (UTC-5) and Sydney (UTC+10)
TZOffsets == {0 - 5, 10}

\* birth dates as new Date('YYYY-MM-DD') builds them: UTC midnight of the day
BirthDays == {DateUTC(2019, 11, 30) + k * HoursPerDay : k \in 0..(BirthSpan - 1)}

\* instants handed to getISOWeekNumber: early and late hours of consecutive days
CalDates ==
  {DateUTC(2019, 11, 23) + k * HoursPerDay + h : k \in 0..(DateSpan - 1), h \in {0, 23}}
    \cup {DateUTC(2021, 0, 1) + 12, DateUTC(2024, 11, 31) + 12}

NoCall == [op |-> "none"]

------------------------------------------------------------------------------
(* storage.js *)

\* a localStorage entry: missing, a JSON array, or a string JSON.parse rejects
StoredNone == [kind |-> "none", data |-> <<>>]
StoredCorrupt == [kind |-> "corrupt", data |-> <<>>]
StoredJson(arr) == [kind |-> "json", data |-> arr]

\* the value undefined, as an array and as an array element
UndefinedRec == [undefined |-> TRUE]
Undefined == <<UndefinedRec>>

EmptyWeek == [memories |-> <<>>]

generateMemoryId == "mem_generated"

migrateOldDataFormat(data) ==
  [i \in 1..Len(data) |->
     LET week == data[i]
     IN IF "memory" \in DOMAIN week
          THEN [memories |-> IF week.memory # ""
                               THEN <<[id |-> generateMemoryId, text |-> week.memory]>>
                               ELSE <<>>]
          ELSE IF "memories" \in DOMAIN week
            THEN [memories |-> week.memories]
            ELSE EmptyWeek]

\* parsedData.length > 0 && typeof parsedData[0].memory === 'string'
IsOldFormat(parsedData) == Len(parsedData) > 0 /\ "memory" \in DOMAIN parsedData[1]

MigrateIfOld(parsedData) ==
  IF IsOldFormat(parsedData) THEN migrateOldDataFormat(parsedData) ELSE parsedData

\* loadData(year) on the storage (years, legacy) at time t in zone z:
\* the returned array and the storage it leaves behind
loadData(year, years, legacy, t, z) ==
  LET currentYear == getFullYear(t, z)
      parsedOld == MigrateIfOld(legacy.data)
      \* storage after the legacy block (lines 86-112)
      years1 == IF legacy.kind = "json"
                  THEN [years EXCEPT ![currentYear] = StoredJson(parsedOld)]
                  ELSE years
      saved == years1[year]
      parsed == MigrateIfOld(saved.data)
  IN IF legacy.kind = "json" /\ year = currentYear
       THEN [data |-> parsedOld, years |-> years1, legacy |-> StoredNone]
     ELSE IF saved.kind = "json"
       THEN [data |-> parsed,
             years |-> IF IsOldFormat(saved.data)
                         THEN [years1 EXCEPT ![year] = StoredJson(parsed)]
                         ELSE years1,
             legacy |-> StoredNone]
     ELSE IF saved.kind = "corrupt"
       THEN [data |-> Undefined,
             years |-> [years1 EXCEPT ![year] = StoredNone],
             legacy |-> StoredNone]
     ELSE [data |-> [i \in 1..NumSlots |-> EmptyWeek], years |-> years1, legacy |-> StoredNone]

------------------------------------------------------------------------------
(* WeekCircle.js *)

checkHasData(data) ==
  \/ "memories" \in DOMAIN data /\ Len(data.memories) > 0
  \/ "memory" \in DOMAIN data /\ data.memory # ""

WeekCircle(row, col, id, weeksSinceBirth, data) ==
  [row |-> row, col |-> col, id |-> id, weeksSinceBirth |-> weeksSinceBirth, data |-> data,
   alpha |-> 255, isBeforeBirth |-> FALSE, isPast |-> FALSE,
   weekRange |-> [startDate |-> Null, endDate |-> Null], hasData |-> FALSE]

\* updateState comparing the Monday with the birth day by <= instead of <
updateStateInclusive(week, displayYear, birth, today, z) ==
  LET range == getWeekDateRange(week.id, displayYear)
      weekMondayStart == setHoursStart(range.startDate, z)
  IN [week EXCEPT
        !.weekRange = range,
        !.isBeforeBirth = IF birth # Null
                            THEN weekMondayStart <= setHoursStart(birth, z)
                            ELSE FALSE,
        !.isPast = weekMondayStart < setHoursStart(today, z),
        !.hasData = checkHasData(week.data)]

updateState(week, displayYear, birth, today, z) ==
  LET range == getWeekDateRange(week.id, displayYear)
      weekMondayStart == setHoursStart(range.startDate, z)
  IN [week EXCEPT
        !.weekRange = range,
        !.isBeforeBirth = IF birth # Null
                            THEN weekMondayStart < setHoursStart(birth, z)
                            ELSE FALSE,
        !.isPast = weekMondayStart < setHoursStart(today, z),
        !.hasData = checkHasData(week.data)]

\* WeekCircle.display: isCurrent, and the orange current-week border
isCurrent(week, cwi, displayYear, today, z) ==
  week.id = cwi /\ displayYear = getFullYear(today, z)

------------------------------------------------------------------------------
(* sketch.js: App *)

\* app.numRows
numRows == 7

\* numCols with eight columns in every row
numColsAllEight(r) == 8

\* let numCols = isEvenRow ? 7 : 8
numCols(r) == IF r % 2 = 0 THEN 7 ELSE 8

RECURSIVE GridCells(_)
\* the (row, column) pairs visited by the two nested loops, rows r..numRows-1
GridCells(r) ==
  IF r >= numRows THEN <<>>
  ELSE [c \in 1..numCols(r) |-> [row |-> r, col |-> c - 1]] \o GridCells(r + 1)

\* App.getWeeksSinceBirth counting the weeks inside the year, whatever the birth date
AppGetWeeksSinceBirthInYear(weekIndex, year, birth) == weekIndex + 1

\* App.getWeeksSinceBirth(weekIndex, year) with this.birthDate = birth
AppGetWeeksSinceBirth(weekIndex, year, birth) ==
  IF birth = Null THEN weekIndex + 1
  ELSE LET weekStartDate == getDateFromWeekIndex(weekIndex, year)
           diffTime == weekStartDate - birth
           diffDays == diffTime \div HoursPerDay
           weeksSinceBirth == diffDays \div 7
       IN IF weeksSinceBirth < 0 THEN 0 ELSE weeksSinceBirth

\* one pass of the inner loop body: the circle created for weekID
NewWeek(cell, weekID, year, birth, today, z, data) ==
  LET dataForThisWeek == IF weekID + 1 <= Len(data) THEN data[weekID + 1] ELSE UndefinedRec
      weeksSinceBirth == AppGetWeeksSinceBirth(weekID, year, birth)
  IN updateState(WeekCircle(cell.row, cell.col, weekID, weeksSinceBirth, dataForThisWeek),
                 year, birth, today, z)

\* initializeMainApp(year) called with app.weeks = weeks0 and app.birthDate = birth;
\* yearArg = Null stands for a call without argument.  The result holds the
\* new values of the fields and of the storage.
initializeMainApp(yearArg, weeks0, birth) ==
  LET year0 == IF yearArg = Null THEN getFullYear(now, tz) ELSE yearArg
      year == IF birth # Null /\ year0 < getFullYear(birth, tz)
                THEN getFullYear(birth, tz) ELSE year0
      isoWeekInfo == getISOWeekNumber(now, tz)
      cwi == IF year # isoWeekInfo.year THEN 0 - 1 ELSE isoWeekInfo.weekNumber - 1
      loaded == loadData(year, lsYears, lsLegacy, now, tz)
      cells == GridCells(0)
  IN [currentDisplayYear |-> year,
      currentWeekIndex |-> cwi,
      yearData |-> loaded.data,
      lsYears |-> loaded.years,
      lsLegacy |-> loaded.legacy,
      \* app.yearData[weekID] throws when loadData returned undefined
      weeks |-> IF loaded.data = Undefined THEN weeks0
                ELSE weeks0 \o [k \in 1..Len(cells) |->
                                  NewWeek(cells[k], k - 1, year, birth, now, tz, loaded.data)]]

\* the element of a set of one element: TheOne({F(v) : v \in {e}}) is F(e) with e
\* evaluated once, as a local const of the code is
TheOne(S) == CHOOSE x \in S : TRUE

\* refreshCircleData computing each circle's state before it assigns the new data
refreshCircleDataStale(year, app) ==
  LET loaded == loadData(year, app.lsYears, app.lsLegacy, now, tz)
      stored == [app EXCEPT !.lsYears = loaded.years, !.lsLegacy = loaded.legacy,
                            !.yearData = loaded.data]
  IN IF year # app.currentDisplayYear THEN app
     ELSE IF loaded.data = Undefined THEN stored
     ELSE [stored EXCEPT !.weeks =
             [k \in 1..Len(app.weeks) |->
                LET week == app.weeks[k]
                IN IF week.id >= 0 /\ week.id < Len(loaded.data)
                     THEN [updateState(week, app.currentDisplayYear, app.birthDate, now, tz)
                             EXCEPT !.data = loaded.data[week.id + 1]]
                     ELSE week]]

\* refreshCircleData without the test of the year against currentDisplayYear
refreshCircleDataAnyYear(year, app) ==
  LET loaded == loadData(year, app.lsYears, app.lsLegacy, now, tz)
      stored == [app EXCEPT !.lsYears = loaded.years, !.lsLegacy = loaded.legacy,
                            !.yearData = loaded.data]
  IN IF loaded.data = Undefined THEN stored
     ELSE [stored EXCEPT !.weeks =
             [k \in 1..Len(app.weeks) |->
                LET week == app.weeks[k]
                IN IF week.id >= 0 /\ week.id < Len(loaded.data)
                     THEN updateState([week EXCEPT !.data = loaded.data[week.id + 1]],
                                      app.currentDisplayYear, app.birthDate, now, tz)
                     ELSE week]]

\* App.refreshCircleData(year) on the fields app = [weeks, yearData, currentDisplayYear,
\* currentWeekIndex, birthDate, lsYears, lsLegacy]: the fields afterwards.  When
\* loadData returned undefined, this.yearData.length throws after the assignment.
refreshCircleData(year, app) ==
  LET loaded == loadData(year, app.lsYears, app.lsLegacy, now, tz)
      stored == [app EXCEPT !.lsYears = loaded.years, !.lsLegacy = loaded.legacy,
                            !.yearData = loaded.data]
  IN IF year # app.currentDisplayYear THEN app
     ELSE IF loaded.data = Undefined THEN stored
     ELSE [stored EXCEPT !.weeks =
             [k \in 1..Len(app.weeks) |->
                LET week == app.weeks[k]
                IN IF week.id >= 0 /\ week.id < Len(loaded.data)
                     THEN updateState([week EXCEPT !.data = loaded.data[week.id + 1]],
                                      app.currentDisplayYear, app.birthDate, now, tz)
                     ELSE week]]

\* new StartingPage()
NewStartingPage ==
  [state |-> "questions", currentQuestionIndex |-> 0,
   dobFormVisible |-> FALSE, skipButtonVisible |-> TRUE]

\* this.questions.length
NumQuestions == 3

NoTransition == [active |-> FALSE, phase |-> "none", targetYear |-> Null]

\* StartingPage.getSavedBirthDate(): new Date('YYYY-MM-DD') is UTC midnight of that day
getSavedBirthDate(stored) == IF stored # Null THEN stored * HoursPerDay ELSE Null

------------------------------------------------------------------------------
(* ModalManager.js and the week modal of sketch.js *)

\* null of modalManager.selectedWeeksSinceBirth (an ordinal may be any integer)
NoWeek == 0 - 2

\* new ModalManager() after setBirthDate(birth); shown: class 'show' of #entry-modal
NewModal(birth) ==
  [shown |-> FALSE, selectedWeeksSinceBirth |-> NoWeek, editingMemoryId |-> "null",
   birthDate |-> birth]

\* displayMemoriesList after its loadData call: one call made, the storage it left,
\* and whether indexing the result throws (loadData returned undefined)
MemoriesListOf(loaded) ==
  [loads |-> 1, years |-> loaded.years, legacy |-> loaded.legacy,
   threw |-> loaded.data = Undefined]

\* displayMemoriesList from the conversion of the ordinal on
MemoriesListFor(yearWeekInfo, years, legacy, t, z) ==
  IF yearWeekInfo = NullYearWeek
    THEN [loads |-> 0, years |-> years, legacy |-> legacy, threw |-> FALSE]
    ELSE MemoriesListOf(loadData(yearWeekInfo.year, years, legacy, t, z))

\* displayMemoriesList(weeksSinceBirth): the loadData calls it makes, the storage it
\* leaves, and whether it throws
displayMemoriesList(weeksSinceBirth, mm, years, legacy, t, z) ==
  IF mm.birthDate = Null
    THEN [loads |-> 0, years |-> years, legacy |-> legacy, threw |-> FALSE]
    ELSE MemoriesListFor(
           getYearAndWeekIndexFromWeeksSinceBirth(weeksSinceBirth, mm.birthDate, z),
           years, legacy, t, z)

\* the rest of showWeekModal once yearWeekInfo is known: editing state reset,
\* list displayed (list: what displayMemoriesList did), showModal
ShowModalWith(week, mm, list) ==
  [modal |-> [mm EXCEPT !.selectedWeeksSinceBirth = week.weeksSinceBirth,
                        !.editingMemoryId = "null",
                        !.shown = IF list.threw THEN mm.shown ELSE TRUE],
   loads |-> list.loads, years |-> list.years, legacy |-> list.legacy]

\* showWeekModal without the test of yearWeekInfo
showWeekModalNoCheck(week, birth, mm, years, legacy, t, z) ==
  ShowModalWith(week, mm,
                displayMemoriesList(week.weeksSinceBirth, mm, years, legacy, t, z))

\* showWeekModal(week) with app.birthDate = birth and modalManager = mm (the elements
\* of the modal exist in the page): the modal state, the number of loadData calls
\* and the storage afterwards
showWeekModal(week, birth, mm, years, legacy, t, z) ==
  IF getYearAndWeekIndexFromWeeksSinceBirth(week.weeksSinceBirth, birth, z) = NullYearWeek
    THEN [modal |-> [mm EXCEPT !.selectedWeeksSinceBirth = week.weeksSinceBirth],
          loads |-> 0, years |-> years, legacy |-> legacy]
    ELSE ShowModalWith(week, mm,
                       displayMemoriesList(week.weeksSinceBirth, mm, years, legacy, t, z))

\* hideModal()
hideModal(mm) ==
  [mm EXCEPT !.shown = FALSE, !.selectedWeeksSinceBirth = NoWeek, !.editingMemoryId = "null"]

\* isModalOpen() with app.cachedModalOpen = cached; due: more than MODAL_CHECK_INTERVAL
\* has passed since the last look at the class list of the modal
isModalOpen(due, cached, mm) == IF due THEN mm.shown ELSE cached

\* ids that generateMemoryId() returns in the model
MemoryIds == <<"mem_a", "mem_b", "mem_c">>

IdsOf(memories) == {memories[i].id : i \in 1..Len(memories)}

\* generateMemoryId() in addMemory ('mem_' + Date.now() + '_' + a random string): an
\* id that no memory of the week has, here the first such of MemoryIds
newMemoryId(memories) ==
  MemoryIds[CHOOSE n \in 1..Len(MemoryIds) :
              /\ MemoryIds[n] \notin IdsOf(memories)
              /\ \A m \in 1..(n - 1) : MemoryIds[m] \in IdsOf(memories)]

\* week.memories, the empty list when the record has no such field
MemoriesOf(rec) == IF "memories" \in DOMAIN rec THEN rec.memories ELSE <<>>

\* the record rec after rec.memories = ms
WithMemories(rec, ms) ==
  [f \in DOMAIN rec \cup {"memories"} |-> IF f = "memories" THEN ms ELSE rec[f]]

\* saveData(data, year)
saveData(data, year, years) == [years EXCEPT ![year] = StoredJson(data)]

\* saveYearDataAndRefresh without the call of refreshCircleData
saveYearDataOnly(data, year, app) ==
  [app EXCEPT !.lsYears = saveData(data, year, app.lsYears)]

\* saveYearDataAndRefresh(yearData, year) on the fields app
saveYearDataAndRefresh(data, year, app) ==
  TheOne({refreshCircleData(year, saved) :
            saved \in {[app EXCEPT !.lsYears = saveData(data, year, app.lsYears)]}})

\* what addMemory, editMemory ('edit') and deleteMemory ('delete') do with the list of
\* the week; the memories of a week carry one date, so sortMemoriesByDate keeps
\* their order
ChangedMemories(kind, ms, memoryId) ==
  CASE kind = "add" -> Append(ms, [id |-> newMemoryId(ms), text |-> "text"])
    [] kind = "edit" -> [i \in 1..Len(ms) |->
                           IF ms[i].id = memoryId THEN [ms[i] EXCEPT !.text = "edited"]
                           ELSE ms[i]]
    [] OTHER -> SelectSeq(ms, LAMBDA m : m.id # memoryId)

\* addMemory / editMemory / deleteMemory after getYearDataForWeek returned the data
\* loaded for yearWeekInfo: indexing undefined throws; editMemory returns when the
\* record has no memories field or no memory of that id, deleteMemory when it has no
\* memories field; otherwise the changed array is saved and the circles refreshed
ChangeLoaded(kind, yearWeekInfo, memoryId, loaded, app) ==
  IF loaded.data = Undefined \/ yearWeekInfo.weekIndex >= Len(loaded.data)
    THEN [app EXCEPT !.lsYears = loaded.years, !.lsLegacy = loaded.legacy]
  ELSE IF \/ kind # "add" /\ "memories" \notin DOMAIN loaded.data[yearWeekInfo.weekIndex + 1]
          \/ kind = "edit"
               /\ memoryId \notin IdsOf(MemoriesOf(loaded.data[yearWeekInfo.weekIndex + 1]))
    THEN [app EXCEPT !.lsYears = loaded.years, !.lsLegacy = loaded.legacy]
  ELSE saveYearDataAndRefresh(
         [loaded.data EXCEPT ![yearWeekInfo.weekIndex + 1] =
            WithMemories(@, ChangedMemories(kind, MemoriesOf(@), memoryId))],
         yearWeekInfo.year,
         [app EXCEPT !.lsYears = loaded.years, !.lsLegacy = loaded.legacy])

\* the operation from the conversion of the ordinal on
ChangeMemoryAt(kind, yearWeekInfo, memoryId, app) ==
  IF yearWeekInfo = NullYearWeek THEN app
  ELSE TheOne({ChangeLoaded(kind, yearWeekInfo, memoryId, loaded, app) :
                 loaded \in {loadData(yearWeekInfo.year, app.lsYears, app.lsLegacy, now, tz)}})

\* addMemory, editMemory and deleteMemory for the week of ordinal weeksSinceBirth,
\* with modalManager = mm, on the fields app: the fields afterwards
ChangeMemory(kind, weeksSinceBirth, memoryId, mm, app) ==
  IF mm.birthDate = Null THEN app
  ELSE TheOne({ChangeMemoryAt(kind, yearWeekInfo, memoryId, app) :
                 yearWeekInfo \in {getYearAndWeekIndexFromWeeksSinceBirth(
                                     weeksSinceBirth, mm.birthDate, tz)}})

addMemory(weeksSinceBirth, mm, app) == ChangeMemory("add", weeksSinceBirth, "null", mm, app)

editMemory(weeksSinceBirth, memoryId, mm, app) ==
  ChangeMemory("edit", weeksSinceBirth, memoryId, mm, app)

deleteMemory(weeksSinceBirth, memoryId, mm, app) ==
  ChangeMemory("delete", weeksSinceBirth, memoryId, mm, app)

\* what yearData[yearWeekInfo.weekIndex].memories || [] gives on the result loaded of
\* loadData, with the storage that the call leaves; throws: the array is undefined
\* or ends before the index
WeekLoadOf(yearWeekInfo, loaded) ==
  [throws |-> loaded.data = Undefined \/ yearWeekInfo.weekIndex >= Len(loaded.data),
   memories |-> IF loaded.data = Undefined \/ yearWeekInfo.weekIndex >= Len(loaded.data)
                  THEN <<>>
                  ELSE MemoriesOf(loaded.data[yearWeekInfo.weekIndex + 1]),
   years |-> loaded.years, legacy |-> loaded.legacy]

WeekLoadAt(yearWeekInfo, years, legacy) ==
  IF yearWeekInfo = NullYearWeek
    THEN [throws |-> FALSE, memories |-> <<>>, years |-> years, legacy |-> legacy]
    ELSE TheOne({WeekLoadOf(yearWeekInfo, loaded) :
                   loaded \in {loadData(yearWeekInfo.year, years, legacy, now, tz)}})

\* the read that displayMemoriesList and viewMemory make for the week of ordinal
\* weeksSinceBirth: the memories they list or search (none when the week cannot be
\* determined), whether the access throws, and the storage afterwards
WeekLoad(weeksSinceBirth, mm, years, legacy) ==
  IF mm.birthDate = Null
    THEN [throws |-> FALSE, memories |-> <<>>, years |-> years, legacy |-> legacy]
    ELSE TheOne({WeekLoadAt(yearWeekInfo, years, legacy) :
                   yearWeekInfo \in {getYearAndWeekIndexFromWeeksSinceBirth(
                                       weeksSinceBirth, mm.birthDate, tz)}})

------------------------------------------------------------------------------
(* Initial states: the page after setup() *)

\* values of new Date() explored: Sun 2021-01-03 23:00Z (ISO 2020-W53; already
\* Monday of 2021-W01 in Sydney) and Tue 2024-12-31 12:00Z (ISO 2025-W01)
Instants == {DateUTC(2021, 0, 3) + 23, DateUTC(2024, 11, 31) + 12}

\* a per-year array as saveData writes it, with one memory in each slot of S
YearArray(S) ==
  [i \in 1..NumSlots |->
     IF (i - 1) \in S THEN [memories |-> <<[id |-> "mem_1", text |-> "text"]>>] ELSE EmptyWeek]

\* the legacy global array of 52 {memory: string} records
LegacyArray(S) == [i \in 1..NumSlots |-> [memory |-> IF (i - 1) \in S THEN "text" ELSE ""]]

NoYears == [y \in Years |-> StoredNone]

\* storage contents left by earlier sessions
InitStores ==
  { [years |-> NoYears, legacy |-> StoredNone],
    [years |-> [NoYears EXCEPT ![2020] = StoredJson(YearArray({0, 51})),
                               ![2025] = StoredJson(YearArray({0}))],
     legacy |-> StoredJson(LegacyArray({1}))] }

\* birth dates entered in the application: Monday 2019-12-30 and Wednesday 2020-01-01,
\* two days of the same ISO week (2020-W01) in different calendar years
AppBirthDays == {DateUTC(2019, 11, 30), DateUTC(2020, 0, 1)}

InitApp ==
  /\ birthDate = getSavedBirthDate(lsBirth)
  /\ startingPage = IF lsBirth # Null
                      THEN [NewStartingPage EXCEPT !.state = "transitioning",
                                                   !.skipButtonVisible = FALSE]
                      ELSE NewStartingPage
  /\ showStartingPage = TRUE
  /\ weeks = <<>>
  /\ yearData = <<>>
  /\ currentDisplayYear = Null
  /\ currentWeekIndex = Null
  /\ yearTransition = NoTransition
  /\ modalManager = NewModal(birthDate)
  /\ cachedModalOpen = FALSE

Init ==
  /\ tz \in TZOffsets
  /\ now \in Instants
  /\ lsBirth \in {Null} \cup {UTCDayNum(b) : b \in AppBirthDays}
  /\ \E st \in InitStores : lsYears = st.years /\ lsLegacy = st.legacy
  /\ InitApp
  /\ call = NoCall

------------------------------------------------------------------------------
(* Actions of the application *)

\* the clock advances
Tick ==
  /\ \E t \in Instants : t > now /\ now' = t
  /\ UNCHANGED <<tz, lsBirth, lsYears, lsLegacy, birthDate, showStartingPage, startingPage,
                 weeks, yearData, currentDisplayYear, currentWeekIndex, yearTransition,
                 modalManager, cachedModalOpen, call>>

\* StartingPage.display(); timerDue: the timer of the current state has run out
StartingPageDisplay(sp, timerDue) ==
  CASE sp.state = "questions" ->
         IF sp.currentQuestionIndex >= NumQuestions THEN [sp EXCEPT !.state = "finalPrompt"]
         ELSE IF timerDue
           THEN [sp EXCEPT !.currentQuestionIndex = sp.currentQuestionIndex + 1]
           ELSE sp
    [] sp.state = "dobEntry" -> [sp EXCEPT !.dobFormVisible = TRUE]
    [] sp.state = "transitioning" -> IF timerDue THEN [sp EXCEPT !.state = "complete"] ELSE sp
    [] OTHER -> sp

\* draw() while the starting page is shown
DrawStartingPage ==
  /\ showStartingPage
  /\ \E timerDue \in BOOLEAN :
       LET sp == StartingPageDisplay(startingPage, timerDue)
           saved == getSavedBirthDate(lsBirth)
       IN /\ startingPage' = sp
          /\ IF sp.state = "complete"
               THEN /\ birthDate' = saved
                    /\ IF saved # Null
                         THEN \E init \in {initializeMainApp(Null, <<>>, saved)} :
                              /\ modalManager' = [modalManager EXCEPT !.birthDate = saved]
                              /\ showStartingPage' = FALSE
                              /\ weeks' = init.weeks
                              /\ yearData' = init.yearData
                              /\ currentDisplayYear' = init.currentDisplayYear
                              /\ currentWeekIndex' = init.currentWeekIndex
                              /\ lsYears' = init.lsYears
                              /\ lsLegacy' = init.lsLegacy
                         ELSE UNCHANGED <<showStartingPage, weeks, yearData, currentDisplayYear,
                                          currentWeekIndex, lsYears, lsLegacy, modalManager>>
               ELSE UNCHANGED <<birthDate, showStartingPage, weeks, yearData, currentDisplayYear,
                                currentWeekIndex, lsYears, lsLegacy, modalManager>>
  /\ UNCHANGED <<tz, now, lsBirth, yearTransition, cachedModalOpen, call>>

\* StartingPage.skipSequence()
skipSequence(sp) ==
  [sp EXCEPT !.state = "dobEntry", !.skipButtonVisible = FALSE,
             !.currentQuestionIndex = NumQuestions]

\* StartingPage.advanceToNextQuestion()
advanceToNextQuestion(sp) ==
  LET idx == sp.currentQuestionIndex + 1
  IN [sp EXCEPT !.currentQuestionIndex = idx,
                !.state = IF idx >= NumQuestions THEN "finalPrompt" ELSE sp.state]

\* StartingPage.handleClick(x, y); onSkip: the point lies inside the skip button
handleClick(sp, onSkip) ==
  IF sp.skipButtonVisible /\ sp.state \notin {"transitioning", "complete"} /\ onSkip
    THEN skipSequence(sp)
  ELSE IF sp.state = "questions" THEN advanceToNextQuestion(sp)
  ELSE IF sp.state = "finalPrompt"
    THEN [sp EXCEPT !.state = "dobEntry", !.skipButtonVisible = FALSE]
  ELSE sp

\* handleInteraction(x, y) for a click or touch while the starting page is shown;
\* onButton: isButtonClick(x, y)
StartingPageClick ==
  /\ showStartingPage
  /\ \E due, onButton, onSkip \in BOOLEAN :
       /\ cachedModalOpen' = isModalOpen(due, cachedModalOpen, modalManager)
       /\ startingPage' = IF cachedModalOpen' \/ onButton THEN startingPage
                          ELSE handleClick(startingPage, onSkip)
  /\ UNCHANGED <<tz, now, lsBirth, lsYears, lsLegacy, birthDate, showStartingPage,
                 weeks, yearData, currentDisplayYear, currentWeekIndex, yearTransition,
                 modalManager, call>>

\* a value of the date-of-birth field for which new Date(value).getTime() is NaN
InvalidDate == 0 - 3

\* values typed into the date-of-birth field: empty (Null), unparsable, a birth day,
\* a day in 2027
DobInputs == {Null, InvalidDate} \cup {UTCDayNum(b) : b \in AppBirthDays} \cup {Jan1Day(2027)}

\* handleDOBSubmit without the test date >= new Date()
SubmitDOBAnyDate ==
  /\ showStartingPage
  /\ startingPage.state = "dobEntry"
  /\ startingPage.dobFormVisible
  /\ \E dateString \in DobInputs :
       IF dateString = Null \/ dateString = InvalidDate
         THEN UNCHANGED <<lsBirth, startingPage>>
         ELSE /\ lsBirth' = dateString
              /\ startingPage' = [startingPage EXCEPT !.state = "transitioning"]
  /\ UNCHANGED <<tz, now, lsYears, lsLegacy, birthDate, showStartingPage,
                 weeks, yearData, currentDisplayYear, currentWeekIndex, yearTransition,
                 modalManager, cachedModalOpen, call>>

\* StartingPage.handleDOBSubmit()
SubmitDOB ==
  /\ showStartingPage
  /\ startingPage.state = "dobEntry"
  /\ startingPage.dobFormVisible
  /\ \E dateString \in DobInputs :
       IF dateString = Null \/ dateString = InvalidDate \/ dateString * HoursPerDay >= now
         THEN UNCHANGED <<lsBirth, startingPage>>
         ELSE /\ lsBirth' = dateString
              /\ startingPage' = [startingPage EXCEPT !.state = "transitioning"]
  /\ UNCHANGED <<tz, now, lsYears, lsLegacy, birthDate, showStartingPage,
                 weeks, yearData, currentDisplayYear, currentWeekIndex, yearTransition,
                 modalManager, cachedModalOpen, call>>

\* navigateToYear(year), from the previous / next year buttons; an accepted navigation
\* hides the modal and clears the selected week and the edited memory
NavigateToYear ==
  /\ ~showStartingPage
  /\ currentDisplayYear # Null
  /\ \E year \in {currentDisplayYear - 1, currentDisplayYear + 1} :
       /\ year \in Years
       /\ IF \/ birthDate = Null
             \/ year < getFullYear(birthDate, tz)
             \/ yearTransition.active
             \/ year = currentDisplayYear
            THEN UNCHANGED <<yearTransition, modalManager>>
            ELSE /\ modalManager' = hideModal(modalManager)
                 /\ yearTransition' = [active |-> TRUE, phase |-> "fadeOut",
                                       targetYear |-> year]
  /\ UNCHANGED <<tz, now, lsBirth, lsYears, lsLegacy, birthDate, showStartingPage, startingPage,
                 weeks, yearData, currentDisplayYear, currentWeekIndex, cachedModalOpen, call>>

SetAlpha(ws, a) == [k \in 1..Len(ws) |-> [ws[k] EXCEPT !.alpha = a]]

\* alpha of a fade that is under way (map(elapsed, 0, duration, ...) strictly inside)
MidAlpha == 128

\* draw() whose updateYearTransition does not empty app.weeks before initializeMainApp
DrawMainAppending ==
  /\ ~showStartingPage
  /\ \E due \in BOOLEAN : cachedModalOpen' = isModalOpen(due, cachedModalOpen, modalManager)
  /\ \E done \in BOOLEAN :
       IF ~yearTransition.active
         THEN UNCHANGED <<weeks, yearData, currentDisplayYear, currentWeekIndex,
                          lsYears, lsLegacy, yearTransition>>
       ELSE IF yearTransition.phase = "fadeOut"
         THEN IF done
                THEN \E init \in {initializeMainApp(yearTransition.targetYear, weeks, birthDate)} :
                        /\ weeks' = SetAlpha(init.weeks, 0)
                        /\ yearData' = init.yearData
                        /\ currentDisplayYear' = init.currentDisplayYear
                        /\ currentWeekIndex' = init.currentWeekIndex
                        /\ lsYears' = init.lsYears
                        /\ lsLegacy' = init.lsLegacy
                        /\ yearTransition' = [yearTransition EXCEPT !.phase = "fadeIn"]
                ELSE /\ weeks' = SetAlpha(weeks, MidAlpha)
                     /\ UNCHANGED <<yearData, currentDisplayYear, currentWeekIndex,
                                    lsYears, lsLegacy, yearTransition>>
       ELSE IF yearTransition.phase = "fadeIn"
         THEN /\ weeks' = SetAlpha(weeks, IF done THEN 255 ELSE MidAlpha)
              /\ yearTransition' = IF done THEN NoTransition ELSE yearTransition
              /\ UNCHANGED <<yearData, currentDisplayYear, currentWeekIndex, lsYears, lsLegacy>>
       ELSE UNCHANGED <<weeks, yearData, currentDisplayYear, currentWeekIndex,
                        lsYears, lsLegacy, yearTransition>>
  /\ UNCHANGED <<tz, now, lsBirth, birthDate, showStartingPage, startingPage, modalManager,
                 call>>

\* draw() whose updateYearTransition ends the fade-in without making the circles opaque
DrawMainHalfOpaque ==
  /\ ~showStartingPage
  /\ \E due \in BOOLEAN : cachedModalOpen' = isModalOpen(due, cachedModalOpen, modalManager)
  /\ \E done \in BOOLEAN :
       IF ~yearTransition.active
         THEN UNCHANGED <<weeks, yearData, currentDisplayYear, currentWeekIndex,
                          lsYears, lsLegacy, yearTransition>>
       ELSE IF yearTransition.phase = "fadeOut"
         THEN IF done
                THEN \E init \in {initializeMainApp(yearTransition.targetYear, <<>>, birthDate)} :
                        /\ weeks' = SetAlpha(init.weeks, 0)
                        /\ yearData' = init.yearData
                        /\ currentDisplayYear' = init.currentDisplayYear
                        /\ currentWeekIndex' = init.currentWeekIndex
                        /\ lsYears' = init.lsYears
                        /\ lsLegacy' = init.lsLegacy
                        /\ yearTransition' = [yearTransition EXCEPT !.phase = "fadeIn"]
                ELSE /\ weeks' = SetAlpha(weeks, MidAlpha)
                     /\ UNCHANGED <<yearData, currentDisplayYear, currentWeekIndex,
                                    lsYears, lsLegacy, yearTransition>>
       ELSE IF yearTransition.phase = "fadeIn"
         THEN /\ weeks' = SetAlpha(weeks, MidAlpha)
              /\ yearTransition' = IF done THEN NoTransition ELSE yearTransition
              /\ UNCHANGED <<yearData, currentDisplayYear, currentWeekIndex, lsYears, lsLegacy>>
       ELSE UNCHANGED <<weeks, yearData, currentDisplayYear, currentWeekIndex,
                        lsYears, lsLegacy, yearTransition>>
  /\ UNCHANGED <<tz, now, lsBirth, birthDate, showStartingPage, startingPage, modalManager,
                 call>>

\* draw() on the main page: isModalOpen(), then updateYearTransition(); done: elapsed >=
\* duration.  goalCountdown.update reads the storage of this and the coming years
\* through loadData; by then the legacy record is migrated and the entries are in
\* the current format, so the storage is left as it is.
DrawMain ==
  /\ ~showStartingPage
  /\ \E due \in BOOLEAN : cachedModalOpen' = isModalOpen(due, cachedModalOpen, modalManager)
  /\ \E done \in BOOLEAN :
       IF ~yearTransition.active
         THEN UNCHANGED <<weeks, yearData, currentDisplayYear, currentWeekIndex,
                          lsYears, lsLegacy, yearTransition>>
       ELSE IF yearTransition.phase = "fadeOut"
         THEN IF done
                THEN \E init \in {initializeMainApp(yearTransition.targetYear, <<>>, birthDate)} :
                        /\ weeks' = SetAlpha(init.weeks, 0)
                        /\ yearData' = init.yearData
                        /\ currentDisplayYear' = init.currentDisplayYear
                        /\ currentWeekIndex' = init.currentWeekIndex
                        /\ lsYears' = init.lsYears
                        /\ lsLegacy' = init.lsLegacy
                        /\ yearTransition' = [yearTransition EXCEPT !.phase = "fadeIn"]
                ELSE /\ weeks' = SetAlpha(weeks, MidAlpha)
                     /\ UNCHANGED <<yearData, currentDisplayYear, currentWeekIndex,
                                    lsYears, lsLegacy, yearTransition>>
       ELSE IF yearTransition.phase = "fadeIn"
         THEN /\ weeks' = SetAlpha(weeks, IF done THEN 255 ELSE MidAlpha)
              /\ yearTransition' = IF done THEN NoTransition ELSE yearTransition
              /\ UNCHANGED <<yearData, currentDisplayYear, currentWeekIndex, lsYears, lsLegacy>>
       ELSE UNCHANGED <<weeks, yearData, currentDisplayYear, currentWeekIndex,
                        lsYears, lsLegacy, yearTransition>>
  /\ UNCHANGED <<tz, now, lsBirth, birthDate, showStartingPage, startingPage, modalManager,
                 call>>

\* returnToHome() that leaves app.weeks as it is
ReturnToHomeKeepGrid ==
  /\ ~showStartingPage
  /\ birthDate' = Null
  /\ showStartingPage' = TRUE
  /\ startingPage' = NewStartingPage
  /\ modalManager' = IF modalManager.shown THEN hideModal(modalManager) ELSE modalManager
  /\ UNCHANGED <<tz, now, lsBirth, lsYears, lsLegacy, weeks, yearData, currentDisplayYear,
                 currentWeekIndex, yearTransition, cachedModalOpen, call>>

\* returnToHome() that also removes 'userBirthDate' from the storage
ReturnToHomeErasing ==
  /\ ~showStartingPage
  /\ weeks' = <<>>
  /\ birthDate' = Null
  /\ showStartingPage' = TRUE
  /\ startingPage' = NewStartingPage
  /\ lsBirth' = Null
  /\ modalManager' = IF modalManager.shown THEN hideModal(modalManager) ELSE modalManager
  /\ UNCHANGED <<tz, now, lsYears, lsLegacy, yearData, currentDisplayYear,
                 currentWeekIndex, yearTransition, cachedModalOpen, call>>

\* returnToHome() without app.showStartingPage = true
ReturnToHomeKeepPage ==
  /\ ~showStartingPage
  /\ weeks' = <<>>
  /\ birthDate' = Null
  /\ startingPage' = NewStartingPage
  /\ modalManager' = IF modalManager.shown THEN hideModal(modalManager) ELSE modalManager
  /\ UNCHANGED <<tz, now, lsBirth, lsYears, lsLegacy, yearData, currentDisplayYear,
                 currentWeekIndex, yearTransition, cachedModalOpen, showStartingPage, call>>

\* returnToHome(), from the home button: the modal is hidden if it is open
ReturnToHome ==
  /\ ~showStartingPage
  /\ weeks' = <<>>
  /\ birthDate' = Null
  /\ showStartingPage' = TRUE
  /\ startingPage' = NewStartingPage
  /\ modalManager' = IF modalManager.shown THEN hideModal(modalManager) ELSE modalManager
  /\ UNCHANGED <<tz, now, lsBirth, lsYears, lsLegacy, yearData, currentDisplayYear,
                 currentWeekIndex, yearTransition, cachedModalOpen, call>>

\* ids of the circles that clicks are aimed at: the second and the last of the grid
ClickIds == {1, 51}

\* displayed years in which circles are clicked
ClickYears == {2021}

\* handleInteraction(x, y) for a click or touch while the main page is shown; k:
\* position in app.weeks of the circle under the point, 0 when the point is on a
\* button (isButtonClick) or on no circle.  The goal cards of the countdown, which
\* open the view of a future memory behind the same isModalOpen test, are left out.
ClickWeek ==
  /\ ~showStartingPage
  /\ \E due \in BOOLEAN, k \in 0..Len(weeks) :
       /\ k # 0 => (weeks[k].id \in ClickIds /\ currentDisplayYear \in ClickYears)
       /\ cachedModalOpen' = isModalOpen(due, cachedModalOpen, modalManager)
       /\ IF cachedModalOpen' \/ k = 0
            THEN UNCHANGED <<modalManager, lsYears, lsLegacy>>
          ELSE IF weeks[k].isBeforeBirth
            THEN UNCHANGED <<modalManager, lsYears, lsLegacy>>
          ELSE \E res \in {showWeekModal(weeks[k], birthDate, modalManager,
                                         lsYears, lsLegacy, now, tz)} :
                 /\ modalManager' = res.modal
                 /\ lsYears' = res.years
                 /\ lsLegacy' = res.legacy
  /\ UNCHANGED <<tz, now, lsBirth, birthDate, showStartingPage, startingPage, weeks, yearData,
                 currentDisplayYear, currentWeekIndex, yearTransition, call>>

\* the fields of app and the storage that a change of the memories reads and writes
AppFields ==
  [weeks |-> weeks, yearData |-> yearData, currentDisplayYear |-> currentDisplayYear,
   currentWeekIndex |-> currentWeekIndex, birthDate |-> birthDate,
   lsYears |-> lsYears, lsLegacy |-> lsLegacy]

SetAppFields(app) ==
  /\ weeks' = app.weeks
  /\ yearData' = app.yearData
  /\ lsYears' = app.lsYears
  /\ lsLegacy' = app.lsLegacy

\* the storage becomes what a loadData call for the selected week leaves
LoadForSelected ==
  \E st \in {WeekLoad(modalManager.selectedWeeksSinceBirth, modalManager, lsYears, lsLegacy)} :
    /\ lsYears' = st.years
    /\ lsLegacy' = st.legacy

\* largest number of memories in the storage that the Save button has added
MaxAdded == 1

\* the number of stored memories whose id is one that addMemory gave
AddedCount(years) ==
  Cardinality({<<y, i, j>> \in Years \X (1..NumSlots) \X (1..Len(MemoryIds)) :
                 /\ i <= Len(years[y].data)
                 /\ j <= Len(MemoriesOf(years[y].data[i]))
                 /\ MemoriesOf(years[y].data[i])[j].id
                      \in {MemoryIds[n] : n \in 1..Len(MemoryIds)}})

\* the Save button of the modal; filled: a title, a text and a date inside the week
\* are entered.  With a memory being edited: editMemory, then viewMemory of it, which
\* sets editingMemoryId to the id it has or returns; otherwise addMemory, then
\* displayMemoriesList.  Both read the storage that the change has left.
SaveButton ==
  /\ modalManager.shown
  /\ modalManager.selectedWeeksSinceBirth # NoWeek
  /\ modalManager.birthDate # Null
  /\ modalManager.editingMemoryId = "null" => AddedCount(lsYears) < MaxAdded
  /\ \E filled \in BOOLEAN :
       IF ~filled
         THEN UNCHANGED <<weeks, yearData, lsYears, lsLegacy, modalManager>>
       ELSE IF modalManager.editingMemoryId # "null"
         THEN \E app \in {editMemory(modalManager.selectedWeeksSinceBirth,
                                     modalManager.editingMemoryId, modalManager, AppFields)} :
                /\ SetAppFields(app)
                /\ UNCHANGED modalManager
         ELSE \E app \in {addMemory(modalManager.selectedWeeksSinceBirth, modalManager,
                                    AppFields)} :
                /\ SetAppFields(app)
                /\ UNCHANGED modalManager
  /\ UNCHANGED <<tz, now, lsBirth, birthDate, showStartingPage, startingPage,
                 currentDisplayYear, currentWeekIndex, yearTransition, cachedModalOpen, call>>

\* the Delete button of the memory view; confirmed: the answer to confirm()
DeleteButton ==
  /\ modalManager.shown
  /\ modalManager.editingMemoryId # "null"
  /\ modalManager.selectedWeeksSinceBirth # NoWeek
  /\ \E confirmed \in BOOLEAN :
       IF ~confirmed
         THEN /\ modalManager' = [modalManager EXCEPT !.editingMemoryId = "null"]
              /\ UNCHANGED <<weeks, yearData, lsYears, lsLegacy>>
         ELSE \E app \in {deleteMemory(modalManager.selectedWeeksSinceBirth,
                                       modalManager.editingMemoryId, modalManager, AppFields)} :
                /\ SetAppFields(app)
                /\ \E list \in {WeekLoad(modalManager.selectedWeeksSinceBirth, modalManager,
                                          app.lsYears, app.lsLegacy)} :
                     modalManager' =
                       IF list.throws THEN modalManager
                       ELSE [modalManager EXCEPT !.editingMemoryId = "null"]
  /\ UNCHANGED <<tz, now, lsBirth, birthDate, showStartingPage, startingPage,
                 currentDisplayYear, currentWeekIndex, yearTransition, cachedModalOpen, call>>

\* a click on an item of the memories list: viewMemory(weeksSinceBirth, memory.id)
ViewMemoryItem ==
  /\ modalManager.shown
  /\ modalManager.editingMemoryId = "null"
  /\ modalManager.selectedWeeksSinceBirth # NoWeek
  /\ \E list \in {WeekLoad(modalManager.selectedWeeksSinceBirth, modalManager,
                            lsYears, lsLegacy)} :
       /\ \E id \in IdsOf(list.memories) :
            modalManager' = [modalManager EXCEPT !.editingMemoryId = id]
       /\ lsYears' = list.years
       /\ lsLegacy' = list.legacy
  /\ UNCHANGED <<tz, now, lsBirth, birthDate, showStartingPage, startingPage, weeks, yearData,
                 currentDisplayYear, currentWeekIndex, yearTransition, cachedModalOpen, call>>

\* the close button of the memory view: back to the list of the selected week
CloseViewButton ==
  /\ modalManager.shown
  /\ modalManager.editingMemoryId # "null"
  /\ modalManager' = [modalManager EXCEPT !.editingMemoryId = "null"]
  /\ IF modalManager.selectedWeeksSinceBirth # NoWeek
       THEN LoadForSelected
       ELSE UNCHANGED <<lsYears, lsLegacy>>
  /\ UNCHANGED <<tz, now, lsBirth, birthDate, showStartingPage, startingPage, weeks, yearData,
                 currentDisplayYear, currentWeekIndex, yearTransition, cachedModalOpen, call>>

\* the Cancel / Close button of the modal: back to the view of the memory being
\* edited, or hideModal()
CancelButton ==
  /\ modalManager.shown
  /\ IF modalManager.editingMemoryId # "null" /\ modalManager.selectedWeeksSinceBirth # NoWeek
       THEN LoadForSelected /\ UNCHANGED modalManager
       ELSE modalManager' = hideModal(modalManager) /\ UNCHANGED <<lsYears, lsLegacy>>
  /\ UNCHANGED <<tz, now, lsBirth, birthDate, showStartingPage, startingPage, weeks, yearData,
                 currentDisplayYear, currentWeekIndex, yearTransition, cachedModalOpen, call>>

\* a click on the backdrop of the modal, outside its content: hideModal()
ClickOutsideModal ==
  /\ modalManager.shown
  /\ modalManager' = hideModal(modalManager)
  /\ UNCHANGED <<tz, now, lsBirth, lsYears, lsLegacy, birthDate, showStartingPage, startingPage,
                 weeks, yearData, currentDisplayYear, currentWeekIndex, yearTransition,
                 cachedModalOpen, call>>

Next ==
  \/ Tick
  \/ DrawStartingPage
  \/ StartingPageClick
  \/ SubmitDOB
  \/ NavigateToYear
  \/ DrawMain
  \/ ReturnToHome

Spec == Init /\ [][Next]_vars

\* A session of a user whose birth date and memories of earlier sessions are stored,
\* on the main page with the week modal: the clicks on circles and the buttons of
\* the modal, with the frames and the year navigation
InitWeekModal == Init /\ lsBirth # Null /\ lsLegacy # StoredNone

NextWeekModal ==
  \/ DrawStartingPage
  \/ NavigateToYear
  \/ DrawMain
  \/ ClickWeek
  \/ ClickOutsideModal
  \/ CancelButton
  \/ ViewMemoryItem
  \/ CloseViewButton
  \/ SaveButton
  \/ DeleteButton

SpecWeekModal == InitWeekModal /\ [][NextWeekModal]_vars

\* A session that stays on the main page once it is there (the home button is not
\* pressed).
NextOnMainPage ==
  \/ Tick
  \/ DrawStartingPage
  \/ StartingPageClick
  \/ SubmitDOB
  \/ NavigateToYear
  \/ DrawMain

\* The frame of updateYearTransition with elapsed >= duration, by what it does to
\* app.yearTransition: fadeOut becomes fadeIn, fadeIn ends the transition.  Among the
\* steps of NextOnMainPage only DrawMain with done = TRUE is such a step, and it can
\* be taken whenever a transition is active on the main page.
TransitionAdvances ==
  /\ ~showStartingPage
  /\ yearTransition.active
  /\ yearTransition' = IF yearTransition.phase = "fadeOut"
                         THEN [yearTransition EXCEPT !.phase = "fadeIn"]
                         ELSE NoTransition

\* p5 calls draw() for every frame and millis() grows, so while a transition is
\* active a frame with elapsed >= duration comes: weak fairness of that frame.
SpecOnMainPage == Init /\ [][NextOnMainPage]_vars /\ WF_yearTransition(TransitionAdvances)

------------------------------------------------------------------------------
(* Calls of the DateUtils functions, of the circle constructor, and of loadData,     *)
(* initializeMainApp, showWeekModal and refreshCircleData on bounded inputs; each    *)
(* behaviour makes one call and records its arguments and result in call            *)

InitCalc ==
  /\ tz \in TZOffsets
  /\ now \in Instants
  /\ lsBirth = Null
  /\ \E st \in InitStores : lsYears = st.years /\ lsLegacy = st.legacy
  /\ InitApp
  /\ call = NoCall

BirthInputs == BirthDays \cup {Null}

CallGetISOWeekNumber ==
  /\ call = NoCall
  /\ \E d \in CalDates :
       call' = [op |-> "getISOWeekNumber", date |-> d, res |-> getISOWeekNumber(d, tz)]
  /\ UNCHANGED <<tz, appVars>>

CallGetDateFromWeekIndex ==
  /\ call = NoCall
  /\ \E i \in WeekSlots, y \in Years :
       call' = [op |-> "getDateFromWeekIndex", weekIndex |-> i, year |-> y,
                res |-> getDateFromWeekIndex(i, y)]
  /\ UNCHANGED <<tz, appVars>>

CallGetWeekDateRange ==
  /\ call = NoCall
  /\ \E i \in WeekSlots, y \in Years :
       call' = [op |-> "getWeekDateRange", weekIndex |-> i, year |-> y,
                res |-> getWeekDateRange(i, y)]
  /\ UNCHANGED <<tz, appVars>>

CallGetWeeksSinceBirth ==
  /\ call = NoCall
  /\ \E i \in WeekSlots, y \in Years, b \in BirthInputs :
       call' = [op |-> "getWeeksSinceBirth", weekIndex |-> i, year |-> y, birth |-> b,
                res |-> getWeeksSinceBirth(i, y, b)]
  /\ UNCHANGED <<tz, appVars>>

CallGetYearAndWeekIndex ==
  /\ call = NoCall
  /\ \E n \in (0 - 1)..MaxN, b \in BirthInputs :
       call' = [op |-> "getYearAndWeekIndexFromWeeksSinceBirth", n |-> n, birth |-> b,
                res |-> getYearAndWeekIndexFromWeeksSinceBirth(n, b, tz)]
  /\ UNCHANGED <<tz, appVars>>

\* the circle initializeMainApp creates for slot i of display year y
CallNewWeek ==
  /\ call = NoCall
  /\ \E i \in WeekSlots, y \in Years, b \in BirthInputs :
       call' = [op |-> "NewWeek", weekIndex |-> i, year |-> y, birth |-> b,
                res |-> NewWeek(GridCells(0)[i + 1], i, y, b, now, tz,
                                [k \in 1..NumSlots |-> EmptyWeek])]
  /\ UNCHANGED <<tz, appVars>>

\* initializeMainApp(y) on an empty grid with app.birthDate = b
CallInitializeMainApp ==
  /\ call = NoCall
  /\ \E y \in Years, b \in BirthInputs :
       call' = [op |-> "initializeMainApp", year |-> y, birth |-> b,
                res |-> initializeMainApp(y, <<>>, b)]
  /\ UNCHANGED <<tz, appVars>>

\* initializeMainApp(y) and initializeMainApp(other), each on an empty grid with
\* app.birthDate = b: the grids of two displayed years
CallGridPair ==
  /\ call = NoCall
  /\ \E y, other \in Years, b \in BirthDays :
       \E first \in {initializeMainApp(y, <<>>, b)}, second \in {initializeMainApp(other, <<>>, b)} :
         call' = [op |-> "gridPair", birth |-> b,
                  year |-> first.currentDisplayYear, weeks |-> first.weeks,
                  otherYear |-> second.currentDisplayYear, otherWeeks |-> second.weeks]
  /\ UNCHANGED <<tz, appVars>>

\* ordinals of the clicked circle: negative, the birth week, the next week, a year later
ModalOrdinals == {0 - 1, 0, 1, 53}

\* showWeekModal(week) for a circle with weeksSinceBirth = n, the modal closed
CallShowWeekModal ==
  /\ call = NoCall
  /\ \E n \in ModalOrdinals, b \in BirthInputs :
       call' = [op |-> "showWeekModal", n |-> n, birth |-> b,
                res |-> showWeekModal([weeksSinceBirth |-> n], b, NewModal(b),
                                      lsYears, lsLegacy, now, tz)]
  /\ UNCHANGED <<tz, appVars>>

\* a stored array whose slots in L are legacy {memory: string} records and the others
\* current {memories: [...]} records; the slots in S hold a memory
MixedArray(L, S) ==
  [i \in 1..NumSlots |->
     IF (i - 1) \in L THEN [memory |-> IF (i - 1) \in S THEN "text" ELSE ""]
     ELSE IF (i - 1) \in S THEN [memories |-> <<[id |-> "mem_1", text |-> "text"]>>]
     ELSE EmptyWeek]

\* values found under the key 'momentryData_<year>': nothing, unparseable text, and
\* arrays in the current format, the legacy format, and mixes that start with a
\* legacy record or with a current one
StoredInputs ==
  {StoredNone, StoredCorrupt,
   StoredJson(YearArray({0, 51})),
   StoredJson(LegacyArray({1})),
   StoredJson(MixedArray({0, 2}, {0, 1})),
   StoredJson(MixedArray({1, 51}, {0, 1}))}

\* loadData(y) with the value st under the key of year y and leg under 'momentryData'
CallLoadData ==
  /\ call = NoCall
  /\ \E y \in Years, st \in StoredInputs, leg \in {lsLegacy, StoredNone, StoredCorrupt} :
       call' = [op |-> "loadData", year |-> y, stored |-> st, legacy |-> leg,
                res |-> loadData(y, [lsYears EXCEPT ![y] = st], leg, now, tz)]
  /\ UNCHANGED <<tz, appVars>>

\* values found under the legacy key 'momentryData': unparseable text, and arrays in
\* the legacy format, the current format, and the two mixes
LegacyInputs == {st \in StoredInputs : st.kind # "none"}

\* loadData(y) with the value leg under 'momentryData', followed by loadData of the
\* current calendar year and by loadData(later)
CallMigrateLegacy ==
  /\ call = NoCall
  /\ \E y, later \in Years, leg \in LegacyInputs :
       \E first \in {loadData(y, lsYears, leg, now, tz)} :
         call' = [op |-> "migrateLegacy", year |-> y, later |-> later, legacy |-> leg,
                  res |-> first,
                  current |-> loadData(getFullYear(now, tz), first.years, first.legacy, now, tz),
                  second |-> loadData(later, first.years, first.legacy, now, tz)]
  /\ UNCHANGED <<tz, appVars>>

\* well-formed arrays saveData may have written under the key of the displayed year
RefreshInputs == {st \in StoredInputs : st.kind = "json"}

\* a year of the window other than y
OtherYear(y) == IF y + 1 \in Years THEN y + 1 ELSE y - 1

\* refreshCircleData(currentDisplayYear) twice in succession, and refreshCircleData of
\* another year, on the grid that initializeMainApp(y) built, after the entry of
\* that year was replaced by st and the legacy entry by leg
CallRefreshCircleData ==
  /\ call = NoCall
  /\ \E y \in Years, b \in BirthInputs, st \in RefreshInputs, leg \in {StoredNone, lsLegacy} :
       \E init \in {initializeMainApp(y, <<>>, b)} :
         \E app \in {[weeks |-> init.weeks, yearData |-> init.yearData,
                       currentDisplayYear |-> init.currentDisplayYear,
                       currentWeekIndex |-> init.currentWeekIndex, birthDate |-> b,
                       lsYears |-> [init.lsYears EXCEPT ![init.currentDisplayYear] = st],
                       lsLegacy |-> leg]} :
           \E first \in {refreshCircleData(app.currentDisplayYear, app)} :
             call' = [op |-> "refreshCircleData", year |-> y, birth |-> b, stored |-> st,
                      legacy |-> leg, before |-> app, first |-> first,
                      second |-> refreshCircleData(first.currentDisplayYear, first),
                      other |-> refreshCircleData(OtherYear(app.currentDisplayYear), app)]
  /\ UNCHANGED <<tz, appVars>>

NextCalc ==
  \/ CallGetISOWeekNumber
  \/ CallGetDateFromWeekIndex
  \/ CallGetWeekDateRange
  \/ CallGetWeeksSinceBirth
  \/ CallGetYearAndWeekIndex
  \/ CallNewWeek
  \/ CallInitializeMainApp
  \/ CallGridPair
  \/ CallShowWeekModal
  \/ CallLoadData
  \/ CallMigrateLegacy
  \/ CallRefreshCircleData

SpecCalc == InitCalc /\ [][NextCalc]_vars

------------------------------------------------------------------------------
(* Properties of the DateUtils functions (checked under SpecCalc) *)

IsInverseCall == call.op = "getYearAndWeekIndexFromWeeksSinceBirth"

\* C1: round trip ordinal -> week -> ordinal: for every birth date b and n in 0..MaxN,
\* getWeeksSinceBirth applied to the week that
\* getYearAndWeekIndexFromWeeksSinceBirth(n, b) returns gives n again.
C1_RoundTrip ==
  (IsInverseCall /\ call.birth # Null /\ call.n >= 0)
    => getWeeksSinceBirth(call.res.weekIndex, call.res.year, call.birth) = call.n

\* C2: the ordinal of a slot that is not before birth, in a display year not before
\* the birth year, maps back to exactly that slot: the inverse mapping applied to the
\* circle's weeksSinceBirth returns {year: display year, weekIndex: slot}.
C2_OrdinalIdentifiesSlot ==
  (/\ call.op = "NewWeek"
   /\ call.birth # Null
   /\ call.year >= getUTCFullYear(call.birth)
   /\ ~call.res.isBeforeBirth)
    => getYearAndWeekIndexFromWeeksSinceBirth(call.res.weeksSinceBirth, call.birth, tz)
         = [year |-> call.year, weekIndex |-> call.weekIndex]

\* the Thursday (as a day number) of the Monday-to-Sunday week of a day number
ThursdayOfWeek(dn) == dn - ((dn + 3) % 7) + 3

\* noon, local time, of a local day number
LocalNoon(dn, z) == dn * HoursPerDay + 12 - z

\* C3: getISOWeekNumber(d) is the ISO-8601 week of the calendar day of d: the year is
\* the calendar year of the Thursday of d's week, the week number counts the Thursdays
\* of that year up to that one, it lies in 1..53, the seven days of the week agree,
\* and 2021-01-01 is week 53 of 2020, 2024-12-31 week 1 of 2025.
C3_ISOWeek ==
  call.op = "getISOWeekNumber" =>
    LET dn == LocalDayNum(call.date, tz)
        thu == ThursdayOfWeek(dn)
        y == YearOfDay(thu)
    IN /\ call.res.year = y
       /\ call.res.weekNumber = ((thu - Jan1Day(y)) \div 7) + 1
       /\ call.res.weekNumber \in 1..53
       /\ \A k \in 0..6 : getISOWeekNumber(LocalNoon(thu - 3 + k, tz), tz) = call.res
       /\ (call.date = DateUTC(2021, 0, 1) + 12)
            => call.res = [weekNumber |-> 53, year |-> 2020]
       /\ (call.date = DateUTC(2024, 11, 31) + 12)
            => call.res = [weekNumber |-> 1, year |-> 2025]

\* C3 witness: the call for 2021-01-01 returned week 53 of 2020
C3_Witness ==
  /\ call.op = "getISOWeekNumber"
  /\ call.date = DateUTC(2021, 0, 1) + 12
  /\ call.res = [weekNumber |-> 53, year |-> 2020]

\* C4: the inverse mapping returns a weekIndex in 0..51 whenever it returns a week,
\* so the 52-element array of loadData has a record at that index.
C4_WeekIndexInRange ==
  (IsInverseCall /\ call.birth # Null /\ call.n >= 0)
    => /\ call.res.weekIndex \in 0..51
       /\ call.res.weekIndex + 1
            <= Len(loadData(call.res.year, [y \in {call.res.year} |-> StoredNone],
                            StoredNone, now, tz).data)

\* C7: getWeeksSinceBirth is never negative, is 0 when the Thursday anchor is earlier
\* than the birth date, is otherwise the number of whole weeks from the birth date to
\* the anchor, and is weekIndex + 1 when no birth date is set.
C7_NonNegative ==
  call.op = "getWeeksSinceBirth" =>
    IF call.birth = Null THEN call.res = call.weekIndex + 1
    ELSE LET anchor == getDateFromWeekIndex(call.weekIndex, call.year)
             days == UTCDayNum(anchor) - UTCDayNum(call.birth)
         IN /\ call.res >= 0
            /\ anchor < call.birth => call.res = 0
            /\ days >= 0 => (7 * call.res <= days /\ days < 7 * call.res + 7)

\* C7 witness: a week whose anchor is more than a week before the birth date got 0
C7_Witness ==
  /\ call.op = "getWeeksSinceBirth"
  /\ call.birth # Null
  /\ getDateFromWeekIndex(call.weekIndex, call.year) + 14 * HoursPerDay < call.birth
  /\ call.res = 0

\* C8: for weekIndex in 0..51, getDateFromWeekIndex(weekIndex, year) is a Thursday
\* (UTC midnight) whose getISOWeekNumber is {weekNumber: weekIndex + 1, year: year}.
C8_ThursdayOfISOWeek ==
  call.op = "getDateFromWeekIndex" =>
    /\ getUTCDay(call.res) = 4
    /\ call.res % HoursPerDay = 0
    /\ getISOWeekNumber(call.res, tz)
         = [weekNumber |-> call.weekIndex + 1, year |-> call.year]

\* C8 witness: the last slot of 2020, a year whose January 1st is not a Thursday
C8_Witness ==
  /\ call.op = "getDateFromWeekIndex"
  /\ call.year = 2020
  /\ call.weekIndex = 51
  /\ call.res = DateUTC(2020, 11, 24)

C6_BeforeBirth ==
  call.op = "NewWeek" =>
    LET monday == UTCDayNum(getDateFromWeekIndex(call.weekIndex, call.year)) - 3
    IN IF call.birth = Null THEN ~call.res.isBeforeBirth
       ELSE IF monday < UTCDayNum(call.birth)
         THEN call.res.isBeforeBirth /\ call.res.weeksSinceBirth = 0
         ELSE ~call.res.isBeforeBirth

\* C6 witness: the circle of the birth week of someone born on a Thursday, whose
\* Monday precedes the birth day although its Thursday anchor does not
C6_Witness ==
  /\ call.op = "NewWeek"
  /\ call.birth = DateUTC(2020, 0, 2)
  /\ call.year = 2020
  /\ call.weekIndex = 0
  /\ call.res.isBeforeBirth
  /\ call.res.weeksSinceBirth = 0

------------------------------------------------------------------------------
(* Properties of the year grid (checked under Spec) *)

\* C5: on the main page a slot is drawn as the current week exactly when its id is
\* the 0-based ISO week index of today and the displayed year is today's ISO year.
C5_CurrentWeekFlag ==
  ~showStartingPage =>
    LET iso == getISOWeekNumber(now, tz)
    IN \A k \in 1..Len(weeks) :
         isCurrent(weeks[k], currentWeekIndex, currentDisplayYear, now, tz)
           <=> (weeks[k].id = iso.weekNumber - 1 /\ currentDisplayYear = iso.year)

\* C10: the grid built by initializeMainApp from an empty array has exactly 52
\* circles with ids 0..51 in order, laid out in 7 rows of alternately 7 and 8
\* columns, whatever the year and whatever is stored for it.
C10_GridComplete ==
  ~showStartingPage =>
    /\ Len(weeks) = 52
    /\ \A k \in 1..Len(weeks) : weeks[k].id = k - 1
    /\ \A r \in 0..6 :
         {weeks[k].col : k \in {j \in 1..Len(weeks) : weeks[j].row = r}}
           = 0..(IF r % 2 = 0 THEN 6 ELSE 7)
    /\ \A k \in 1..Len(weeks) : weeks[k].row \in 0..6

\* C10 witness: the grid of 2020, a year of 53 ISO weeks with stored memories
C10_Witness ==
  /\ ~showStartingPage
  /\ currentDisplayYear = 2020
  /\ Len(weeks) = 52
  /\ weeks[52].id = 51
  /\ weeks[52].hasData

\* the year of the birth day the user entered: new Date('YYYY-MM-DD') is UTC midnight
\* of that day
BirthYear(birth) == getUTCFullYear(birth)

\* C11: whenever a birth date is set and the grid is shown, the displayed year is not
\* before the birth year, whatever navigation, transitions, return-home and re-entry
\* came before.
C11_NotBeforeBirthYear ==
  (~showStartingPage /\ birthDate # Null /\ Len(weeks) > 0)
    => currentDisplayYear >= BirthYear(birthDate)

\* the fields of a slot that C12 compares
SlotView(week) ==
  [id |-> week.id, weeksSinceBirth |-> week.weeksSinceBirth,
   isBeforeBirth |-> week.isBeforeBirth, isPast |-> week.isPast, hasData |-> week.hasData]

\* C12: initializeMainApp(y) with a birth date set and y before the birth year gives
\* the same currentDisplayYear and the same 52 slots (id, weeksSinceBirth,
\* isBeforeBirth, isPast, hasData) as initializeMainApp(birth year).
C12_ClampAtBirthYear ==
  (/\ call.op = "initializeMainApp"
   /\ call.birth # Null
   /\ call.year < BirthYear(call.birth))
    => LET ref == initializeMainApp(BirthYear(call.birth), <<>>, call.birth)
       IN /\ call.res.currentDisplayYear = ref.currentDisplayYear
          /\ Len(call.res.weeks) = NumSlots
          /\ Len(ref.weeks) = NumSlots
          /\ \A k \in 1..NumSlots : SlotView(call.res.weeks[k]) = SlotView(ref.weeks[k])

\* C13: getYearAndWeekIndexFromWeeksSinceBirth(n, birth) returns null exactly when
\* n < 0 or birth is unset; when it returns null, showWeekModal does not show the
\* modal, makes no loadData call and leaves the storage as it was.
C13_NullRefuses ==
  /\ IsInverseCall => (call.res = NullYearWeek <=> (call.n < 0 \/ call.birth = Null))
  /\ (/\ call.op = "showWeekModal"
      /\ getYearAndWeekIndexFromWeeksSinceBirth(call.n, call.birth, tz) = NullYearWeek)
       => /\ ~call.res.modal.shown
          /\ call.res.loads = 0
          /\ call.res.years = lsYears
          /\ call.res.legacy = lsLegacy

\* C13 witness: a click on a circle with a negative ordinal, birth date set, was refused
C13_Witness ==
  /\ call.op = "showWeekModal"
  /\ call.n < 0
  /\ call.birth # Null
  /\ ~call.res.modal.shown
  /\ call.res.loads = 0

\* the call read the key of its year (the legacy record did not answer for it)
ReadsYearKey ==
  call.op = "loadData" /\ ~(call.legacy.kind = "json" /\ call.year = getFullYear(now, tz))

\* C14: loadData(year) returns an array of exactly 52 records with an empty memories
\* list both when nothing is stored under the year's key and when the stored value
\* is unparseable; in the latter case the key is removed from the storage.
C14_LoadAlways52 ==
  (ReadsYearKey /\ call.stored.kind \in {"none", "corrupt"})
    => /\ Len(call.res.data) = NumSlots
       /\ \A i \in 1..Len(call.res.data) : call.res.data[i] = EmptyWeek
       /\ call.res.years[call.year] = StoredNone

\* C15: for a stored per-year array of legacy {memory: string} and current
\* {memories: [...]} records in any mix and order, every record loadData(year)
\* returns has a memories list and no legacy memory field.
C15_NormalizedShape ==
  (ReadsYearKey /\ call.stored.kind = "json")
    => /\ Len(call.res.data) = Len(call.stored.data)
       /\ \A i \in 1..Len(call.res.data) :
            "memories" \in DOMAIN call.res.data[i] /\ "memory" \notin DOMAIN call.res.data[i]

\* C16: when the intro completes (also after returnToHome, in whatever state Home was
\* pressed) the grid displays today's calendar year with no year transition in
\* progress, and the displayed year then changes only through a transition that a
\* navigation of the user started on the main page.
C16_HomeReturnsToCurrentYear ==
  [][/\ (showStartingPage /\ ~showStartingPage')
          => (currentDisplayYear' = getFullYear(now', tz') /\ ~yearTransition'.active)
     /\ (~showStartingPage /\ ~showStartingPage' /\ currentDisplayYear' # currentDisplayYear)
          => yearTransition.active
     /\ (~yearTransition.active /\ yearTransition'.active)
          => (/\ ~showStartingPage
              /\ yearTransition'.targetYear \in {currentDisplayYear - 1, currentDisplayYear + 1})
    ]_vars

\* C17: returnToHome leaves the 'userBirthDate' entry and every memory entry of the
\* storage unchanged; it sets the in-memory birth date to null, empties the grid and
\* shows the starting page, and changes no other field of the application.
C17_HomeKeepsStorage ==
  [][(~showStartingPage /\ showStartingPage')
       => /\ lsBirth' = lsBirth
          /\ lsYears' = lsYears
          /\ lsLegacy' = lsLegacy
          /\ birthDate' = Null
          /\ weeks' = <<>>
          /\ startingPage' = NewStartingPage
          /\ UNCHANGED <<yearData, currentDisplayYear, currentWeekIndex, yearTransition>>
    ]_vars

\* C17 witness: the starting page after Home, the birth date still in the storage
C17_Witness ==
  /\ showStartingPage
  /\ currentDisplayYear # Null
  /\ birthDate = Null
  /\ lsBirth # Null
  /\ weeks = <<>>
  /\ startingPage = NewStartingPage

\* what C18 compares of a slot: hasData, isPast and whether it is drawn as current
StatusView(app, k) ==
  [hasData |-> app.weeks[k].hasData, isPast |-> app.weeks[k].isPast,
   isCurrent |-> isCurrent(app.weeks[k], app.currentWeekIndex, app.currentDisplayYear, now, tz)]

\* C18: refreshCircleData(currentDisplayYear) called twice in succession, nothing else
\* touching storage, birth date or today, leaves every slot's hasData, isPast and
\* current-week status after the second call as they were after the first.
C18_RefreshIdempotent ==
  call.op = "refreshCircleData" =>
    /\ Len(call.second.weeks) = Len(call.first.weeks)
    /\ \A k \in 1..Len(call.first.weeks) : StatusView(call.second, k) = StatusView(call.first, k)

\* C18 witness: the first refresh changed the hasData of a slot, and the second
\* left the 52 slots as the first did
C18_Witness ==
  /\ call.op = "refreshCircleData"
  /\ Len(call.first.weeks) = NumSlots
  /\ \E k \in 1..NumSlots : call.first.weeks[k].hasData # call.before.weeks[k].hasData
  /\ \A k \in 1..NumSlots : StatusView(call.second, k) = StatusView(call.first, k)

\* C19: every slot of a non-empty grid caches the weeksSinceBirth and isBeforeBirth
\* derived from the current birth date and the displayed year; no slot computed for
\* an earlier birth date survives returnToHome and re-entry.
C19_NoStaleBirthCache ==
  \A k \in 1..Len(weeks) :
    /\ weeks[k].weeksSinceBirth
         = AppGetWeeksSinceBirth(weeks[k].id, currentDisplayYear, birthDate)
    /\ weeks[k].isBeforeBirth
         = (/\ birthDate # Null
            /\ setHoursStart(getWeekDateRange(weeks[k].id, currentDisplayYear).startDate, tz)
                 < setHoursStart(birthDate, tz))

\* C19 witness: in Sydney the grid of someone born on 2020-01-01 while a transition
\* towards 2019 is still pending: that transition was started in an earlier entry
\* with the birth date 2019-12-30, before Home and a new birth date
C19_Witness ==
  /\ ~showStartingPage
  /\ tz = 10
  /\ birthDate = DateUTC(2020, 0, 1)
  /\ yearTransition.targetYear = 2019
  /\ Len(weeks) = NumSlots
  /\ currentDisplayYear = 2020
  /\ weeks[1].isBeforeBirth
  /\ ~weeks[2].isBeforeBirth

\* C20: between handlers and frames the grid is empty or holds exactly 52 slots whose
\* cached week ranges were all derived for currentDisplayYear; slots of two years
\* never coexist and the grid never exceeds 52 slots.
C20_YearSwitchAtomic ==
  /\ Len(weeks) \in {0, NumSlots}
  /\ \A k \in 1..Len(weeks) :
       weeks[k].weekRange = getWeekDateRange(weeks[k].id, currentDisplayYear)
  /\ \A j, k \in 1..Len(weeks) :
       weeks[j].id = weeks[k].id => j = k

\* C20 witness: the frame in which a fade-out ended and the grid of the target year
\* replaced the previous one
C20_Witness ==
  /\ ~showStartingPage
  /\ yearTransition.phase = "fadeIn"
  /\ currentDisplayYear = yearTransition.targetYear
  /\ Len(weeks) = NumSlots
  /\ weeks[1].alpha = 0
  /\ weeks[NumSlots].weekRange = getWeekDateRange(NumSlots - 1, yearTransition.targetYear)

------------------------------------------------------------------------------
(* The year transition *)

\* the steps a transition in progress may take: none, fadeOut -> fadeIn with the
\* target kept, fadeIn -> none with the target cleared
TransitionProgress ==
  \/ yearTransition' = yearTransition
  \/ /\ yearTransition.phase = "fadeOut"
     /\ yearTransition' = [yearTransition EXCEPT !.phase = "fadeIn"]
  \/ /\ yearTransition.phase = "fadeIn"
     /\ yearTransition' = NoTransition

\* C21: one transition at a time: while a transition is active no navigation replaces
\* its target, the phase only moves none -> fadeOut -> fadeIn -> none, and while a
\* transition is active currentDisplayYear changes only at the fadeOut -> fadeIn step,
\* where it becomes the targetYear recorded when the navigation was accepted.
C21_TransitionProtocol ==
  [][/\ yearTransition.active => TransitionProgress
     /\ ~yearTransition.active
          => \/ yearTransition' = yearTransition
             \/ /\ yearTransition'.active
                /\ yearTransition'.phase = "fadeOut"
                /\ yearTransition'.targetYear # currentDisplayYear
                /\ UNCHANGED <<weeks, yearData, currentDisplayYear, currentWeekIndex>>
     /\ yearTransition.active = (yearTransition.phase # "none")
     /\ (yearTransition.active /\ currentDisplayYear' # currentDisplayYear)
          => (yearTransition.phase = "fadeOut" /\ yearTransition'.phase = "fadeIn")
     /\ (yearTransition.phase = "fadeOut" /\ yearTransition'.phase = "fadeIn")
          => (/\ currentDisplayYear' = yearTransition.targetYear
              /\ currentDisplayYear' # currentDisplayYear)
    ]_vars

\* C22: on a main page that keeps drawing, every accepted navigation to a year y
\* completes: eventually no transition is active, the phase is 'none', the target is
\* null, the grid displays y and its 52 slots are fully opaque.
C22_NavigationCompletes ==
  \A y \in Years :
    (~showStartingPage /\ yearTransition.active /\ yearTransition.targetYear = y)
      ~> (/\ yearTransition = NoTransition
          /\ currentDisplayYear = y
          /\ Len(weeks) = NumSlots
          /\ \A k \in 1..NumSlots : weeks[k].alpha = 255)

\* C22 witness: the grid of 2020, a year no session starts in, fully opaque with no
\* transition left: a navigation from 2021 to 2020 has completed
C22_Witness ==
  /\ ~showStartingPage
  /\ yearTransition = NoTransition
  /\ currentDisplayYear = 2020
  /\ Len(weeks) = NumSlots
  /\ \A k \in 1..NumSlots : weeks[k].alpha = 255

------------------------------------------------------------------------------
(* refreshCircleData *)

\* the fields of a slot that refreshCircleData must not touch
SlotFrame(week) ==
  [id |-> week.id, weeksSinceBirth |-> week.weeksSinceBirth, row |-> week.row,
   col |-> week.col, alpha |-> week.alpha]

\* C23: refreshCircleData(year) with year # currentDisplayYear changes no slot, does
\* not replace yearData and reads nothing from the storage; with year =
\* currentDisplayYear it keeps the number of slots and each slot's id, cached
\* weeksSinceBirth, grid position and alpha, binds each slot's data to the record
\* loadData returned for its id, and re-derives hasData, isPast, isBeforeBirth and
\* the week range from it.
C23_RefreshFrame ==
  call.op = "refreshCircleData" =>
    /\ call.other = call.before
    /\ Len(call.first.weeks) = Len(call.before.weeks)
    /\ call.first.currentDisplayYear = call.before.currentDisplayYear
    /\ \A k \in 1..Len(call.before.weeks) :
         /\ SlotFrame(call.first.weeks[k]) = SlotFrame(call.before.weeks[k])
         /\ call.first.weeks[k].data = call.first.yearData[call.before.weeks[k].id + 1]
         /\ call.first.weeks[k]
              = updateState([call.before.weeks[k] EXCEPT !.data = call.first.weeks[k].data],
                            call.before.currentDisplayYear, call.birth, now, tz)

\* C23 witness: a refresh of the displayed year that bound new data to a slot whose
\* ordinal is not 0, while the refresh of another year left the 52 slots alone
C23_Witness ==
  /\ call.op = "refreshCircleData"
  /\ Len(call.before.weeks) = NumSlots
  /\ call.other.weeks = call.before.weeks
  /\ \E k \in 1..NumSlots :
       /\ call.first.weeks[k].data # call.before.weeks[k].data
       /\ call.first.weeks[k].weeksSinceBirth > 0
       /\ call.first.weeks[k].weeksSinceBirth = call.before.weeks[k].weeksSinceBirth

------------------------------------------------------------------------------
(* The week modal *)

\* C24: while the entry modal has the class 'show', a click or touch that
\* handleInteraction processes on the main page leaves the modal shown and changes
\* neither modalManager.selectedWeeksSinceBirth nor modalManager.editingMemoryId,
\* whenever the cached modal-open flag was last refreshed.
C24_ClicksIgnoredWhileOpen ==
  [][(modalManager.shown /\ ClickWeek) => modalManager' = modalManager]_vars

------------------------------------------------------------------------------
(* The intro sequence *)

\* the changes of StartingPage.state that the claimed order allows
IntroMoves ==
  { <<"questions", "finalPrompt">>, <<"questions", "dobEntry">>, <<"finalPrompt", "dobEntry">>,
    <<"dobEntry", "transitioning">>, <<"transitioning", "complete">> }

\* C25: while the starting page is shown its state only moves forward along questions,
\* finalPrompt, dobEntry, transitioning, complete (Skip jumps to dobEntry); it leaves
\* dobEntry for transitioning only with a parsable date before now written to the
\* storage; a step that stays in dobEntry leaves the stored birth date as it is; and
\* in state complete a birth date is stored.
C25_IntroOrder ==
  /\ [](startingPage.state = "complete" => lsBirth # Null)
  /\ [][showStartingPage =>
         /\ startingPage'.state # startingPage.state
              => <<startingPage.state, startingPage'.state>> \in IntroMoves
         /\ (startingPage.state = "dobEntry" /\ startingPage'.state = "transitioning")
              => /\ lsBirth' \notin {Null, InvalidDate}
                 /\ lsBirth' * HoursPerDay < now
         /\ (startingPage.state = "dobEntry" /\ startingPage'.state = "dobEntry")
              => lsBirth' = lsBirth]_vars

\* the intro was skipped and a date of birth submitted: the page is in the transition
\* with the question index that skipSequence leaves
C25_Witness ==
  /\ showStartingPage
  /\ startingPage.state = "transitioning"
  /\ startingPage.currentQuestionIndex = NumQuestions
  /\ lsBirth # Null

------------------------------------------------------------------------------
(* Migration of the legacy global record *)

\* C26: after a loadData(year) call made while the key 'momentryData' exists the key
\* is gone; if its content was parseable, its records in the memories-list shape are
\* stored under the key of the current calendar year, loadData(current year) returns
\* them on this call and on a later one, and a later loadData call leaves that key
\* and the absence of the legacy key as they are.
C26_LegacyMigratedOnce ==
  call.op = "migrateLegacy" =>
    /\ call.res.legacy = StoredNone
    /\ call.legacy.kind = "json" =>
         /\ call.res.years[getFullYear(now, tz)]
              = StoredJson(migrateOldDataFormat(call.legacy.data))
         /\ call.year = getFullYear(now, tz)
              => call.res.data = migrateOldDataFormat(call.legacy.data)
         /\ call.current.data = migrateOldDataFormat(call.legacy.data)
         /\ call.second.legacy = StoredNone
         /\ call.second.years[getFullYear(now, tz)] = call.res.years[getFullYear(now, tz)]

------------------------------------------------------------------------------
(* hasData and the storage *)

\* the record stored under the key of the year for slot id holds at least one memory
PersistedHasMemory(year, id) ==
  /\ lsYears[year].kind = "json"
  /\ id + 1 <= Len(lsYears[year].data)
  /\ checkHasData(lsYears[year].data[id + 1])

\* C27: on the main page, after any sequence of clicks, Save (addMemory, editMemory),
\* Delete (deleteMemory) and year navigation, the grid has 52 slots and the hasData
\* of each is true exactly if the record stored for (currentDisplayYear, slot id)
\* holds a memory; with nothing stored for the year every hasData is false.
C27_HasDataMirrorsStorage ==
  ~showStartingPage =>
    /\ Len(weeks) = NumSlots
    /\ \A k \in 1..Len(weeks) :
         weeks[k].hasData <=> PersistedHasMemory(currentDisplayYear, weeks[k].id)

\* a displayed slot whose migrated memory was deleted and to which Save has added one
C27_Witness ==
  /\ ~showStartingPage
  /\ \E k \in 1..Len(weeks) :
       /\ weeks[k].hasData
       /\ lsYears[currentDisplayYear].kind = "json"
       /\ IdsOf(MemoriesOf(lsYears[currentDisplayYear].data[weeks[k].id + 1])) = {MemoryIds[1]}
       /\ weeks[k].id = 1
  /\ \E k \in 1..Len(weeks) : weeks[k].id = 51 /\ ~weeks[k].hasData

------------------------------------------------------------------------------
(* Ordinals of the interactive slots *)

\* C28: two different (year, slot) pairs of displayed years not before the birth
\* year, both slots not before birth, never have the same weeksSinceBirth; and from
\* a not-before-birth slot to the next slot of the same grid, also not before birth,
\* weeksSinceBirth grows by exactly 1.
C28_OrdinalsUnique ==
  call.op = "gridPair" =>
    /\ (call.year >= BirthYear(call.birth) /\ call.otherYear >= BirthYear(call.birth))
         => \A i \in 1..Len(call.weeks), j \in 1..Len(call.otherWeeks) :
              ( /\ <<call.year, call.weeks[i].id>> # <<call.otherYear, call.otherWeeks[j].id>>
                /\ ~call.weeks[i].isBeforeBirth
                /\ ~call.otherWeeks[j].isBeforeBirth )
                => call.weeks[i].weeksSinceBirth # call.otherWeeks[j].weeksSinceBirth
    /\ \A i \in 1..(Len(call.weeks) - 1) :
         (~call.weeks[i].isBeforeBirth /\ ~call.weeks[i + 1].isBeforeBirth)
           => call.weeks[i + 1].weeksSinceBirth = call.weeks[i].weeksSinceBirth + 1

\* the grid of the birth year, which holds slots before birth and the first
\* interactive slot, beside the grid of the year after it
C28_Witness ==
  /\ call.op = "gridPair"
  /\ call.year = BirthYear(call.birth)
  /\ call.otherYear = call.year + 1
  /\ Len(call.weeks) = NumSlots /\ Len(call.otherWeeks) = NumSlots
  /\ \E i \in 1..(Len(call.weeks) - 1) :
       call.weeks[i].isBeforeBirth /\ ~call.weeks[i + 1].isBeforeBirth
  /\ \A j \in 1..Len(call.otherWeeks) : ~call.otherWeeks[j].isBeforeBirth

------------------------------------------------------------------------------
(* The main grid and the birth date *)

\* C29: while the main page is shown (showStartingPage = false) app.birthDate is not
\* null and the grid holds 52 slots; while the starting page is shown, after
\* returnToHome as after setup, the grid is empty.
C29_GridOnlyWithBirthDate ==
  /\ ~showStartingPage => (birthDate # Null /\ Len(weeks) = NumSlots)
  /\ showStartingPage => weeks = <<>>

\* the starting page after returnToHome, at the date-of-birth form: a year has been
\* displayed and a birth date is stored, the grid and app.birthDate are cleared
C29_Witness ==
  /\ showStartingPage
  /\ startingPage.state = "dobEntry"
  /\ currentDisplayYear # Null
  /\ lsBirth # Null
  /\ birthDate = Null
  /\ weeks = <<>>

------------------------------------------------------------------------------
(* The grid on entry *)

\* the UTC days of the slot's cached Monday-Sunday range include the local day of t
RangeContains(week, t, z) ==
  /\ UTCDayNum(week.weekRange.startDate) <= LocalDayNum(t, z)
  /\ LocalDayNum(t, z) <= UTCDayNum(week.weekRange.endDate)

\* C30: the frame that enters the main page (initializeMainApp() without a year)
\* displays today's ISO year with currentWeekIndex in 0..51, and exactly one of the
\* 52 slots has that id, its Monday-Sunday range containing today.
C30_InitialGridHasToday ==
  [][(showStartingPage /\ ~showStartingPage')
       => /\ currentDisplayYear' = getISOWeekNumber(now', tz').year
          /\ currentWeekIndex' \in 0..(NumSlots - 1)
          /\ Cardinality({k \in 1..Len(weeks') : weeks'[k].id = currentWeekIndex'}) = 1
          /\ \A k \in 1..Len(weeks') :
               weeks'[k].id = currentWeekIndex' => RangeContains(weeks'[k], now', tz')]_vars

====
